---------------------------- MODULE Spec2Model ----------------------------
(***************************************************************************)
(* A model of forte's DataStore (src/forte/data/data_store.py).            *)
(*                                                                         *)
(* Python objects are modelled by a heap: every entry list created by      *)
(* _new_annotation lives at an address, and __elements / __entry_dict hold *)
(* addresses, so that "the same list object" and "an equal list" differ.   *)
(* Python indices are 0-based; a field at Python index i of an entry is    *)
(* element i + 1 of the modelled tuple.  Positions inside a container are  *)
(* kept 0-based, as the code computes them.                                *)
(***************************************************************************)
EXTENDS Integers, Sequences, FiniteSets, TLC

(***************************************************************************)
(* Bounds of the model.                                                    *)
(***************************************************************************)
MaxTid == 3        \* tids are drawn from 1..MaxTid, so at most MaxTid adds
MaxPos == 1        \* begin and end are drawn from 0..MaxPos
MaxVal == 1        \* attribute values are drawn from 1..MaxVal
MaxNames == 2      \* co_iterator_annotation_like is given at most MaxNames type names

(***************************************************************************)
(* forte.common.constants, as used by the data store: an entry is          *)
(* [begin, end, tid, type_name, attr_1, ..., attr_n].                      *)
(***************************************************************************)
BEGIN_INDEX == 0
END_INDEX == 1
TID_INDEX == 2
ENTRY_TYPE_INDEX == 3

None == 0          \* Python's None (attribute values are 1..MaxVal)

TidSpace == 1..MaxTid
Positions == 0..MaxPos

\* the spans the callers of the model pass to add_annotation_raw
Spans == {sp \in Positions \X Positions : sp[1] <= sp[2]}
Values == 1..MaxVal

(***************************************************************************)
(* The type system collaborator (forte.utils.get_class and the dataclass   *)
(* fields of the class).  "NoSuchClass" is a name get_class cannot import. *)
(***************************************************************************)
ClassNames == {"Annotation", "Sentence", "Document"}

\* the type names the callers of the model pass to add_annotation_raw
TypeNames == {"Sentence", "Document", "NoSuchClass"}

\* the link and group classes get_class can import: no subclasses of
\* Annotation
LinkNames == {"Dependency"}
GroupNames == {"CoreferenceGroup"}

\* the names get_class can import
Importable == ClassNames \cup LinkNames \cup GroupNames

\* list(class_.__dataclass_fields__.keys())
_get_entry_attributes_by_class(type_name) ==
    CASE type_name = "Sentence" -> <<"speaker", "part_id">>
      [] type_name = "Dependency" -> <<"dep_label", "rel_type">>
      [] OTHER -> <<>>

\* the attribute names the callers of the model pass: "begin" names a field
\* of the fixed prefix, which is no attribute of any type
AttrNames == {"speaker", "part_id", "begin"}

\* issubclass(get_class(type_name), (Annotation, AudioAnnotation))
_is_annotation(type_name) == type_name \in ClassNames

\* Python's order on str, for the type names of the model
StrRank(s) ==
    CASE s = "Annotation" -> 1
      [] s = "Document" -> 2
      [] s = "NoSuchClass" -> 3
      [] OTHER -> 4

VARIABLES
    type_attributes,      \* self._type_attributes: type name -> attr name -> slot
    dynamically_add_type, \* self._dynamically_add_type
    elements,             \* self.__elements: a dict in insertion order, as a
                          \* sequence of [name, list]; list is a sequence of addresses
    entry_dict,           \* self.__entry_dict: tid -> address of the entry
    heap,                 \* address -> entry (the Python list objects alive)
    issued,               \* the tids uuid4 has produced so far
    deleted               \* history: the tids whose delete_entry call returned

vars == <<type_attributes, dynamically_add_type, elements, entry_dict, heap, issued,
          deleted>>

\* the two indices and the records they hold
store == <<elements, entry_dict, heap>>

(***************************************************************************)
(* Python dict, in insertion order.                                        *)
(***************************************************************************)
DictKeys(d) == {d[i].name : i \in 1..Len(d)}

DictIdx(d, k) == CHOOSE i \in 1..Len(d) : d[i].name = k

DictGet(d, k) == d[DictIdx(d, k)].list

DictSet(d, k, v) ==
    IF k \in DictKeys(d)
    THEN [d EXCEPT ![DictIdx(d, k)].list = v]
    ELSE Append(d, [name |-> k, list |-> v])

DictPop(d, k) ==
    LET i == DictIdx(d, k)
    IN  SubSeq(d, 1, i - 1) \o SubSeq(d, i + 1, Len(d))

(***************************************************************************)
(* Python list comparison (lexicographic).                                 *)
(***************************************************************************)
Min(a, b) == IF a < b THEN a ELSE b

ListLess(x, y) ==
    LET diff == {i \in 1..Min(Len(x), Len(y)) : x[i] # y[i]}
    IN  IF diff = {}
        THEN Len(x) < Len(y)
        ELSE LET i == CHOOSE j \in diff : \A k \in diff : j <= k
             IN  IF i = ENTRY_TYPE_INDEX + 1
                 THEN StrRank(x[i]) < StrRank(y[i])
                 ELSE x[i] < y[i]

(***************************************************************************)
(* sortedcontainers.SortedList(key=lambda s: (s[0], s[1])) over addresses. *)
(***************************************************************************)
Key(e) == <<e[BEGIN_INDEX + 1], e[END_INDEX + 1]>>

KeyLess(k1, k2) == k1[1] < k2[1] \/ (k1[1] = k2[1] /\ k1[2] < k2[2])

KeyLeq(k1, k2) == ~KeyLess(k2, k1)

\* SortedKeyList.bisect_left(value): first position whose key is >= the key
SortedBisectLeft(h, lst, e) ==
    Cardinality({i \in 1..Len(lst) : KeyLess(Key(h[lst[i]]), Key(e))})

\* SortedKeyList.bisect_right(value): first position whose key is > the key
SortedBisectRight(h, lst, e) ==
    Cardinality({i \in 1..Len(lst) : KeyLeq(Key(h[lst[i]]), Key(e))})

\* a list that appends instead of inserting in key order
SortedListAdd_Append(h, lst, a) == Append(lst, a)

\* a list that inserts before the values of equal key
SortedListAdd_Left(h, lst, a) ==
    LET p == SortedBisectLeft(h, lst, h[a])
    IN  SubSeq(lst, 1, p) \o <<a>> \o SubSeq(lst, p + 1, Len(lst))

\* SortedKeyList.add(value): insert after the values of equal key
SortedListAdd(h, lst, a) ==
    LET p == SortedBisectRight(h, lst, h[a])
    IN  SubSeq(lst, 1, p) \o <<a>> \o SubSeq(lst, p + 1, Len(lst))

\* pop() without the index: removes the last value
SortedListPop_Last(lst, idx) == SubSeq(lst, 1, Len(lst) - 1)

\* SortedList.pop(index), index 0-based
SortedListPop(lst, idx) ==
    SubSeq(lst, 1, idx) \o SubSeq(lst, idx + 2, Len(lst))


\* bisect.bisect_left(a, x) of the standard library: a binary search that
\* compares whole entries with Python's list order
RECURSIVE BisectLoop(_, _, _, _, _)
BisectLoop(h, lst, x, lo, hi) ==
    IF lo < hi
    THEN LET mid == (lo + hi) \div 2
         IN  IF ListLess(h[lst[mid + 1]], x)
             THEN BisectLoop(h, lst, x, mid + 1, hi)
             ELSE BisectLoop(h, lst, x, lo, mid)
    ELSE lo

bisect_left(h, lst, x) == BisectLoop(h, lst, x, 0, Len(lst))

(***************************************************************************)
(* The type registry.                                                      *)
(***************************************************************************)
\* a registry that adds types whatever dynamically_add_type says
TypeInfoErr_Dynamic(ta, dyn, type_name) ==
    IF type_name \in DOMAIN ta THEN "ok"
    ELSE IF type_name \notin Importable THEN "ValueError"
    ELSE "ok"

\* the outcome of _get_type_info: "ok" or the exception it raises
TypeInfoErr(ta, dyn, type_name) ==
    IF type_name \in DOMAIN ta THEN "ok"
    ELSE IF ~dyn THEN "ValueError"
    ELSE IF type_name \notin Importable THEN "ValueError"
    ELSE "ok"

\* an attr_dict that also names a field of the fixed prefix
NewAttrDict_WithPrefix(type_name) ==
    LET attributes == <<"begin">> \o _get_entry_attributes_by_class(type_name)
    IN  [n \in {attributes[i] : i \in 1..Len(attributes)} |->
            ENTRY_TYPE_INDEX + (CHOOSE i \in 1..Len(attributes) : attributes[i] = n) - 1]

\* an attr_dict built without the increment of attr_idx
NewAttrDict_NoIncrement(type_name) ==
    LET attributes == _get_entry_attributes_by_class(type_name)
    IN  [n \in {attributes[i] : i \in 1..Len(attributes)} |-> ENTRY_TYPE_INDEX + 1]

\* attr_dict of a new type: attr_idx starts at ENTRY_TYPE_INDEX + 1
NewAttrDict(type_name) ==
    LET attributes == _get_entry_attributes_by_class(type_name)
    IN  [n \in {attributes[i] : i \in 1..Len(attributes)} |->
            ENTRY_TYPE_INDEX + (CHOOSE i \in 1..Len(attributes) : attributes[i] = n)]

\* a registry that holds the type resolved last and no other
_get_type_info_Fresh(ta, type_name) == (type_name :> NewAttrDict(type_name))

\* self._type_attributes after a successful _get_type_info(type_name)
_get_type_info(ta, type_name) ==
    IF type_name \in DOMAIN ta THEN ta
    ELSE (type_name :> NewAttrDict(type_name)) @@ ta

_num_attributes_for_type(ta, type_name) ==
    Cardinality(DOMAIN _get_type_info(ta, type_name)[type_name])

RECURSIVE Nones(_)
Nones(n) == IF n = 0 THEN <<>> ELSE <<None>> \o Nones(n - 1)

\* an entry without its attribute slots
_new_annotation_NoSlots(ta, type_name, begin, end, tid) == <<begin, end, tid, type_name>>

\* an entry that carries one and the same tid, whatever uuid4 produced
_new_annotation_SameTid(ta, type_name, begin, end, tid) ==
    <<begin, end, 1, type_name>> \o Nones(_num_attributes_for_type(ta, type_name))

\* the entry built by _new_annotation, given the tid uuid4 produced
_new_annotation(ta, type_name, begin, end, tid) ==
    <<begin, end, tid, type_name>> \o Nones(_num_attributes_for_type(ta, type_name))

\* a link that already carries a field for its position
_new_link_WithIndex(ta, type_name, parent_tid, child_tid, tid) ==
    <<parent_tid, child_tid, tid, type_name>>
        \o Nones(_num_attributes_for_type(ta, type_name)) \o <<None>>

\* the entry built by _new_link, given the tid uuid4 produced
_new_link(ta, type_name, parent_tid, child_tid, tid) ==
    <<parent_tid, child_tid, tid, type_name>> \o Nones(_num_attributes_for_type(ta, type_name))

\* the entry built by _new_group, given the tid uuid4 produced
_new_group(ta, type_name, member_type, tid) ==
    <<member_type, <<>>, tid, type_name>> \o Nones(_num_attributes_for_type(ta, type_name))

(***************************************************************************)
(* The heap.                                                               *)
(***************************************************************************)
\* the address of the next list object: objects are numbered as created
NewAddr == Cardinality(issued) + 1

Referenced(elems, ed) ==
    {ed[t] : t \in DOMAIN ed}
        \cup UNION {{elems[i].list[j] : j \in 1..Len(elems[i].list)} : i \in 1..Len(elems)}

\* objects nothing refers to are garbage
Collect(h, elems, ed) == [a \in DOMAIN h \cap Referenced(elems, ed) |-> h[a]]

Init ==
    /\ type_attributes = <<>>
    /\ dynamically_add_type = TRUE
    /\ elements = <<>>
    /\ entry_dict = <<>>
    /\ heap = <<>>
    /\ issued = {}
    /\ deleted = {}

(***************************************************************************)
(* add_annotation_raw(type_name, begin, end); tid is the value uuid4 draws *)
(***************************************************************************)
\* "ok", or the exception add_annotation_raw raises
add_annotation_raw_err(type_name) ==
    TypeInfoErr(type_attributes, dynamically_add_type, type_name)

\* self.__elements after lines 403-407
AddToElements(h, elems, type_name, a) ==
    IF type_name \in DictKeys(elems)
    THEN DictSet(elems, type_name, SortedListAdd(h, DictGet(elems, type_name), a))
    ELSE DictSet(elems, type_name, SortedListAdd(h, <<>>, a))

\* the key tid registered for the entry created first
AddToEntryDict_First(ed, tid, a) == (tid :> 1) @@ ed

\* an entry registered under its creation number instead of its tid
AddToEntryDict_ByNumber(ed, tid, a) == (a :> a) @@ ed

\* self.__entry_dict after line 409
AddToEntryDict(ed, tid, a) == (tid :> a) @@ ed

add_annotation_raw(type_name, begin, end, tid) ==
    /\ tid \notin issued
    /\ issued' = issued \cup {tid}
    /\ UNCHANGED <<dynamically_add_type, deleted>>
    /\ IF add_annotation_raw_err(type_name) # "ok"
       THEN UNCHANGED <<type_attributes, elements, entry_dict, heap>>
       ELSE LET entry == _new_annotation(type_attributes, type_name, begin, end, tid)
                a == NewAddr
                h == (a :> entry) @@ heap
            IN  /\ type_attributes' = _get_type_info(type_attributes, type_name)
                /\ heap' = h
                /\ elements' = AddToElements(h, elements, type_name, a)
                /\ entry_dict' = AddToEntryDict(entry_dict, tid, a)

(***************************************************************************)
(* add_link_raw(type_name, parent_tid, child_tid) and                      *)
(* add_group_raw(type_name, member_type): the body is one raise            *)
(***************************************************************************)
add_link_raw_err(type_name, parent_tid, child_tid) == "NotImplementedError"

add_group_raw_err(type_name, member_type) == "NotImplementedError"

\* an add_link_raw that does for a link what add_annotation_raw does for an
\* annotation, the tid being one not drawn so far
add_link_raw_Adds(type_name, parent_tid, child_tid) ==
    LET tid == IF TidSpace \ issued = {} THEN 0 ELSE CHOOSE t \in TidSpace : t \notin issued
        entry == _new_link(type_attributes, type_name, parent_tid, child_tid, tid)
        a == NewAddr
    IN  /\ tid \in TidSpace
        /\ issued' = issued \cup {tid}
        /\ type_attributes' = _get_type_info(type_attributes, type_name)
        /\ heap' = (a :> entry) @@ heap
        /\ elements' =
               IF type_name \in DictKeys(elements)
               THEN DictSet(elements, type_name, Append(DictGet(elements, type_name), a))
               ELSE DictSet(elements, type_name, <<a>>)
        /\ entry_dict' = AddToEntryDict(entry_dict, tid, a)
        /\ UNCHANGED <<dynamically_add_type, deleted>>

add_link_raw(type_name, parent_tid, child_tid) ==
    /\ add_link_raw_err(type_name, parent_tid, child_tid) = "NotImplementedError"
    /\ UNCHANGED vars

add_group_raw(type_name, member_type) ==
    /\ add_group_raw_err(type_name, member_type) = "NotImplementedError"
    /\ UNCHANGED vars

(***************************************************************************)
(* _new_annotation, _new_link and _new_group called on their own: the call *)
(* draws a tid, then resolves the type (which may register it, or raise),  *)
(* and returns the entry without storing it.                               *)
(***************************************************************************)
\* self._type_attributes after _num_attributes_for_type(type_name) returned
\* or raised
NewEntryRegistry(type_name) ==
    IF TypeInfoErr(type_attributes, dynamically_add_type, type_name) = "ok"
    THEN _get_type_info(type_attributes, type_name)
    ELSE type_attributes

new_annotation(type_name, begin, end, tid) ==
    /\ tid \notin issued
    /\ issued' = issued \cup {tid}
    /\ type_attributes' = NewEntryRegistry(type_name)
    /\ UNCHANGED <<dynamically_add_type, elements, entry_dict, heap, deleted>>

new_link(type_name, parent_tid, child_tid, tid) ==
    /\ tid \notin issued
    /\ issued' = issued \cup {tid}
    /\ type_attributes' = NewEntryRegistry(type_name)
    /\ UNCHANGED <<dynamically_add_type, elements, entry_dict, heap, deleted>>

new_group(type_name, member_type, tid) ==
    /\ tid \notin issued
    /\ issued' = issued \cup {tid}
    /\ type_attributes' = NewEntryRegistry(type_name)
    /\ UNCHANGED <<dynamically_add_type, elements, entry_dict, heap, deleted>>

(***************************************************************************)
(* delete_entry(tid)                                                       *)
(***************************************************************************)
\* a lookup in place of the pop: the key stays
EntryDictPop_Keep(ed, tid) == ed

\* self.__entry_dict.pop(tid)
EntryDictPop(ed, tid) == [t \in DOMAIN ed \ {tid} |-> ed[t]]

\* the position delete_entry computes for the entry (lines 562-565); a group
\* or link carries its position in its last field
DeleteIndex(h, target_list, entry_data) ==
    IF _is_annotation(entry_data[ENTRY_TYPE_INDEX + 1])
    THEN bisect_left(h, target_list, entry_data)
    ELSE entry_data[Len(entry_data)]

\* the test of lines 567-570
DeleteNotFound(h, target_list, entry_index, entry_data) ==
    \/ entry_index >= Len(target_list)
    \/ h[target_list[entry_index + 1]] # entry_data

\* "ok", or the exception delete_entry(tid) raises
delete_entry_err(tid) ==
    IF tid \notin DOMAIN entry_dict THEN "KeyError"
    ELSE LET entry_data == heap[entry_dict[tid]]
             type_name == entry_data[ENTRY_TYPE_INDEX + 1]
         IN  IF type_name \notin DictKeys(elements) THEN "RuntimeError"
             ELSE LET target_list == DictGet(elements, type_name)
                      entry_index == DeleteIndex(heap, target_list, entry_data)
                  IN  IF DeleteNotFound(heap, target_list, entry_index, entry_data)
                      THEN "RuntimeError"
                      ELSE "ok"

\* a removal that keeps the container it has emptied
_delete_entry_by_loc_KeepEmpty(elems, type_name, index_id) ==
    DictSet(elems, type_name, SortedListPop(DictGet(elems, type_name), index_id))

\* self.__elements after _delete_entry_by_loc(type_name, index_id)
_delete_entry_by_loc(elems, type_name, index_id) ==
    LET target_list == SortedListPop(DictGet(elems, type_name), index_id)
    IN  IF target_list = <<>>
        THEN DictPop(elems, type_name)
        ELSE DictSet(elems, type_name, target_list)

\* self.__entry_dict when delete_entry(tid) has raised RuntimeError
EntryDictAfterFailedDelete(ed, tid) == EntryDictPop(ed, tid)

delete_entry(tid) ==
    /\ UNCHANGED <<type_attributes, dynamically_add_type, issued>>
    /\ LET err == delete_entry_err(tid)
       IN  IF err = "KeyError"
           THEN UNCHANGED <<elements, entry_dict, heap, deleted>>
           ELSE IF err = "RuntimeError"
           THEN LET ed == EntryDictAfterFailedDelete(entry_dict, tid)
                IN  /\ entry_dict' = ed
                    /\ elements' = elements
                    /\ heap' = Collect(heap, elements, ed)
                    /\ UNCHANGED deleted
           ELSE LET entry_data == heap[entry_dict[tid]]
                    type_name == entry_data[ENTRY_TYPE_INDEX + 1]
                    entry_index == DeleteIndex(heap, DictGet(elements, type_name),
                                               entry_data)
                    elems == _delete_entry_by_loc(elements, type_name, entry_index)
                    ed == EntryDictPop(entry_dict, tid)
                IN  /\ entry_dict' = ed
                    /\ elements' = elems
                    /\ heap' = Collect(heap, elems, ed)
                    /\ deleted' = deleted \cup {tid}

(***************************************************************************)
(* _delete_entry_by_loc(type_name, index_id), called on its own: it takes  *)
(* the record at index_id out of the container of type_name and does not   *)
(* touch self.__entry_dict.                                                *)
(***************************************************************************)
\* "ok", or the exception of lines 590-601
_delete_entry_by_loc_err(type_name, index_id) ==
    IF type_name \notin DictKeys(elements) THEN "KeyError"
    ELSE IF index_id < 0 \/ index_id >= Len(DictGet(elements, type_name)) THEN "IndexError"
    ELSE "ok"

delete_entry_by_loc(type_name, index_id) ==
    /\ UNCHANGED <<type_attributes, dynamically_add_type, issued, deleted, entry_dict>>
    /\ IF _delete_entry_by_loc_err(type_name, index_id) # "ok"
       THEN UNCHANGED <<elements, heap>>
       ELSE LET elems == _delete_entry_by_loc(elements, type_name, index_id)
            IN  /\ elements' = elems
                /\ heap' = Collect(heap, elems, entry_dict)

(***************************************************************************)
(* set_attribute(tid, attr_name, attr_value) and get_attribute             *)
(***************************************************************************)
\* "ok", or the exception of the two lookups of lines 463-472 and 505-514
AttrErr(tid, attr_name) ==
    IF tid \notin DOMAIN entry_dict THEN "KeyError(tid)"
    ELSE LET entry_type == heap[entry_dict[tid]][ENTRY_TYPE_INDEX + 1]
         IN  IF attr_name \notin DOMAIN _get_type_info(type_attributes, entry_type)[entry_type]
             THEN "KeyError(attr)"
             ELSE "ok"

\* attr_id of lines 470 and 512
AttrId(tid, attr_name) ==
    LET entry_type == heap[entry_dict[tid]][ENTRY_TYPE_INDEX + 1]
    IN  _get_type_info(type_attributes, entry_type)[entry_type][attr_name]

\* a write to the first attribute slot, whatever the attribute
SetSlot_First(h, a, attr_id, attr_value) ==
    [h EXCEPT ![a][ENTRY_TYPE_INDEX + 2] = attr_value]

\* a write that fills every attribute slot of the entry
SetSlot_All(h, a, attr_id, attr_value) ==
    [h EXCEPT ![a] = [i \in DOMAIN @ |-> IF i > ENTRY_TYPE_INDEX + 1 THEN attr_value ELSE @[i]]]

\* entry[attr_id] = attr_value, on the list object at address a
SetSlot(h, a, attr_id, attr_value) == [h EXCEPT ![a][attr_id + 1] = attr_value]

set_attribute(tid, attr_name, attr_value) ==
    /\ UNCHANGED <<type_attributes, dynamically_add_type, issued, deleted, elements,
                   entry_dict>>
    /\ IF AttrErr(tid, attr_name) # "ok"
       THEN UNCHANGED heap
       ELSE heap' = SetSlot(heap, entry_dict[tid], AttrId(tid, attr_name), attr_value)

\* the value get_attribute returns when it raises nothing
get_attribute_ret(tid, attr_name) == heap[entry_dict[tid]][AttrId(tid, attr_name) + 1]

get_attribute(tid, attr_name) ==
    /\ AttrErr(tid, attr_name) = "ok" => get_attribute_ret(tid, attr_name) \in {None} \cup Values
    /\ UNCHANGED vars

(***************************************************************************)
(* get_entry, get_entry_index, next_entry, prev_entry                      *)
(* A result is [err, ret]: err is "ok" or the exception raised; an entry   *)
(* is returned as its address, and None stands for itself.                 *)
(***************************************************************************)
Result(err, ret) == [err |-> err, ret |-> ret]

Errors == {"ok", "ValueError", "KeyError", "IndexError"}

get_entry_result(tid) ==
    IF tid \notin DOMAIN entry_dict THEN Result("ValueError", None)
    ELSE IF heap[entry_dict[tid]][ENTRY_TYPE_INDEX + 1] \notin DictKeys(elements)
         THEN Result("KeyError", None)
         ELSE Result("ok", entry_dict[tid])

\* the pair get_entry returns at line 626 when it raises nothing
get_entry_ret(tid) == <<entry_dict[tid], heap[entry_dict[tid]][ENTRY_TYPE_INDEX + 1]>>

\* index_id of lines 647-656
EntryIndex(entry_list, entry) ==
    IF _is_annotation(entry[ENTRY_TYPE_INDEX + 1])
    THEN SortedBisectLeft(heap, entry_list, entry)
    ELSE entry[Len(entry)]

get_entry_index_result(tid) ==
    LET r == get_entry_result(tid)
    IN  IF r.err # "ok" THEN r
        ELSE LET entry == heap[r.ret]
                 entry_list == DictGet(elements, entry[ENTRY_TYPE_INDEX + 1])
                 index_id == EntryIndex(entry_list, entry)
             IN  IF /\ _is_annotation(entry[ENTRY_TYPE_INDEX + 1])
                    /\ \/ ~(0 <= index_id /\ index_id < Len(entry_list))
                       \/ heap[entry_list[index_id + 1]][TID_INDEX + 1] # entry[TID_INDEX + 1]
                 THEN Result("ValueError", None)
                 ELSE Result("ok", index_id)

next_entry_result(tid) ==
    LET r == get_entry_result(tid)
        i == get_entry_index_result(tid)
    IN  IF r.err # "ok" THEN r
        ELSE IF i.err # "ok" THEN i
        ELSE LET entry_list == DictGet(elements, heap[r.ret][ENTRY_TYPE_INDEX + 1])
                 index_id == i.ret
             IN  IF ~(0 <= index_id /\ index_id < Len(entry_list))
                 THEN Result("IndexError", None)
                 ELSE IF index_id = Len(entry_list) - 1
                 THEN Result("ok", None)
                 ELSE Result("ok", entry_list[index_id + 2])

prev_entry_result(tid) ==
    LET r == get_entry_result(tid)
        i == get_entry_index_result(tid)
    IN  IF r.err # "ok" THEN r
        ELSE IF i.err # "ok" THEN i
        ELSE LET entry_list == DictGet(elements, heap[r.ret][ENTRY_TYPE_INDEX + 1])
                 index_id == i.ret
             IN  IF ~(0 <= index_id /\ index_id < Len(entry_list))
                 THEN Result("IndexError", None)
                 ELSE IF index_id = 0
                 THEN Result("ok", None)
                 ELSE Result("ok", entry_list[index_id])

\* a lookup that takes the key out of self.__entry_dict, as delete_entry does
get_entry_Pop(tid) ==
    /\ entry_dict' = [t \in DOMAIN entry_dict \ {tid} |-> entry_dict[t]]
    /\ UNCHANGED <<type_attributes, dynamically_add_type, elements, heap, issued, deleted>>

\* a query returns or raises, and assigns nothing
get_entry(tid) == get_entry_result(tid).err \in Errors /\ UNCHANGED vars

get_entry_index(tid) == get_entry_index_result(tid).err \in Errors /\ UNCHANGED vars

next_entry(tid) == next_entry_result(tid).err \in Errors /\ UNCHANGED vars

prev_entry(tid) == prev_entry_result(tid).err \in Errors /\ UNCHANGED vars

(***************************************************************************)
(* co_iterator_annotation_like(type_names): what the generator yields when *)
(* it is run to its end and the store is not changed meanwhile.            *)
(***************************************************************************)
\* the lists of type names the callers of the model pass
TypeNameLists == UNION {[1..n -> TypeNames] : n \in 0..MaxNames}

\* a loop that takes a missing container for an empty one
FirstEntryErr_Empty(elems, tn) ==
    IF tn \notin DictKeys(elems) \/ DictGet(elems, tn) = <<>>
    THEN "ValueError(empty)"
    ELSE "ok"

\* lines 705-721 for one type name: "ok", or the ValueError raised
FirstEntryErr(elems, tn) ==
    IF tn \notin DictKeys(elems) THEN "ValueError(not recognized)"
    ELSE IF DictGet(elems, tn) = <<>> THEN "ValueError(empty)"
    ELSE "ok"

\* the loop of lines 704-721 from the i-th type name on
RECURSIVE FirstEntriesErr(_, _, _)
FirstEntriesErr(elems, type_names, i) ==
    IF i > Len(type_names) THEN "ok"
    ELSE IF FirstEntryErr(elems, type_names[i]) # "ok"
    THEN FirstEntryErr(elems, type_names[i])
    ELSE FirstEntriesErr(elems, type_names, i + 1)

\* the tuple pushed to the min-heap for the entry at address a (lines 736-743
\* and 776-783)
entry_tuple(h, a, p_idx) ==
    [key |-> <<h[a][BEGIN_INDEX + 1], h[a][END_INDEX + 1], p_idx>>,
     type_name |-> h[a][ENTRY_TYPE_INDEX + 1]]

\* Python's order on the tuples ((begin, end, p_idx), type_name)
TupleLess(t, u) ==
    \/ KeyLess(t.key, u.key)
    \/ /\ t.key[1] = u.key[1] /\ t.key[2] = u.key[2]
       /\ \/ t.key[3] < u.key[3]
          \/ t.key[3] = u.key[3] /\ StrRank(t.type_name) < StrRank(u.type_name)

\* a pop that takes the greatest tuple
heappop_Max(mh) == CHOOSE t \in mh : \A u \in mh : u = t \/ TupleLess(u, t)

\* heappop(h): the least tuple of the heap
heappop(mh) == CHOOSE t \in mh : \A u \in mh : u = t \/ TupleLess(t, u)

\* a test that finds no next entry
HasNext_Never(lst, pointer) == FALSE

\* the test of line 772
HasNext(lst, pointer) == pointer + 1 < Len(lst)

\* the loop of lines 749-788; pointers is 1-based over p_idx + 1, and out
\* collects <<p_idx, entry>> for every entry yielded
RECURSIVE MergeLoop(_, _, _, _, _)
MergeLoop(h, elems, mh, pointers, out) ==
    IF mh = {} THEN out
    ELSE LET t == heappop(mh)
             p_idx == t.key[3]
             pointer == pointers[p_idx + 1]
             lst == DictGet(elems, t.type_name)
             entry == lst[pointer + 1]
         IN  IF HasNext(lst, pointer)
             THEN MergeLoop(h, elems,
                            (mh \ {t}) \cup {entry_tuple(h, lst[pointer + 2], p_idx)},
                            [pointers EXCEPT ![p_idx + 1] = pointer + 1],
                            Append(out, <<p_idx, entry>>))
             ELSE MergeLoop(h, elems, mh \ {t}, pointers, Append(out, <<p_idx, entry>>))

\* the heap of lines 734-747
FirstHeap(h, elems, type_names) ==
    {entry_tuple(h, DictGet(elems, type_names[i])[1], i - 1) : i \in 1..Len(type_names)}

\* [err, ret]: ret is the sequence of <<p_idx, entry>> of the entries yielded
co_iterator_annotation_like_result(h, elems, type_names) ==
    IF FirstEntriesErr(elems, type_names, 1) # "ok"
    THEN Result(FirstEntriesErr(elems, type_names, 1), <<>>)
    ELSE Result("ok", MergeLoop(h, elems, FirstHeap(h, elems, type_names),
                                [i \in 1..Len(type_names) |-> 0], <<>>))

co_iterator_annotation_like(type_names) ==
    /\ LET r == co_iterator_annotation_like_result(heap, elements, type_names)
       IN  r.err = "ok" => Len(r.ret) >= Len(type_names)
    /\ UNCHANGED vars

(***************************************************************************)
(* get(type_name, include_sub_type): what the generator yields when it is  *)
(* run to its end and the store is not changed meanwhile.                  *)
(***************************************************************************)
\* the type names the callers of the model pass to get
GetTypeNames == ClassNames \cup {"NoSuchClass"}

\* a test that knows no class but the class itself
issubclass_Same(sub, sup) == sub = sup

\* issubclass(get_class(sub), get_class(sup)): Sentence and Document are
\* subclasses of Annotation
issubclass(sub, sup) == sub = sup \/ (sub \in ClassNames /\ sup = "Annotation")

\* all_types of lines 805-809, from the i-th key of self.__elements on
RECURSIVE all_types(_, _, _)
all_types(elems, type_name, i) ==
    IF i > Len(elems) THEN <<>>
    ELSE IF issubclass(elems[i].name, type_name)
    THEN <<elems[i].name>> \o all_types(elems, type_name, i + 1)
    ELSE all_types(elems, type_name, i + 1)

\* the entries yielded by lines 810-812, from the i-th of the types on
RECURSIVE YieldAll(_, _, _)
YieldAll(elems, types, i) ==
    IF i > Len(types) THEN <<>>
    ELSE DictGet(elems, types[i]) \o YieldAll(elems, types, i + 1)

\* a get that takes the subclasses in whatever include_sub_type says
get_result_Sub(elems, type_name, include_sub_type) ==
    IF type_name \notin ClassNames THEN Result("ValueError", <<>>)
    ELSE Result("ok", YieldAll(elems, all_types(elems, type_name, 1), 1))

\* [err, ret]: ret is the sequence of the entries yielded
get_result(elems, type_name, include_sub_type) ==
    IF include_sub_type
    THEN IF type_name \notin ClassNames THEN Result("ValueError", <<>>)
         ELSE Result("ok", YieldAll(elems, all_types(elems, type_name, 1), 1))
    ELSE IF type_name \notin DictKeys(elems) THEN Result("KeyError", <<>>)
         ELSE Result("ok", DictGet(elems, type_name))

get(type_name, include_sub_type) ==
    /\ get_result(elements, type_name, include_sub_type).err \in Errors
    /\ UNCHANGED vars

(***************************************************************************)
(* The store under any sequence of calls.                                  *)
(***************************************************************************)
Next ==
    \/ \E type_name \in TypeNames, sp \in Spans, tid \in TidSpace :
           add_annotation_raw(type_name, sp[1], sp[2], tid)
    \/ \E tid \in TidSpace : delete_entry(tid)
    \/ \E tid \in TidSpace, attr_name \in AttrNames, attr_value \in Values :
           set_attribute(tid, attr_name, attr_value)
    \/ \E tid \in TidSpace, attr_name \in AttrNames : get_attribute(tid, attr_name)
    \/ \E tid \in TidSpace : get_entry(tid)
    \/ \E tid \in TidSpace : get_entry_index(tid)
    \/ \E tid \in TidSpace : next_entry(tid)
    \/ \E tid \in TidSpace : prev_entry(tid)
    \/ \E type_names \in TypeNameLists : co_iterator_annotation_like(type_names)
    \/ \E type_name \in GetTypeNames, include_sub_type \in BOOLEAN :
           get(type_name, include_sub_type)
    \/ \E type_name \in LinkNames, parent_tid \in TidSpace, child_tid \in TidSpace :
           add_link_raw(type_name, parent_tid, child_tid)
    \/ \E type_name \in GroupNames, member_type \in TypeNames :
           add_group_raw(type_name, member_type)

Spec == Init /\ [][Next]_vars

\* the records of the store (attribute values aside) when _delete_entry_by_loc
\* is also called from outside delete_entry
NextByLoc ==
    \/ \E type_name \in TypeNames, sp \in Spans, tid \in TidSpace :
           add_annotation_raw(type_name, sp[1], sp[2], tid)
    \/ \E tid \in TidSpace : delete_entry(tid)
    \/ \E type_name \in TypeNames, index_id \in 0..MaxTid :
           delete_entry_by_loc(type_name, index_id)
    \/ \E tid \in TidSpace : get_entry_index(tid)
    \/ \E tid \in TidSpace : next_entry(tid)
    \/ \E tid \in TidSpace : prev_entry(tid)

SpecByLoc == Init /\ [][NextByLoc]_vars

\* the store after DataStore(onto_file_path, dynamically_add_type): with no
\* ontology file parsed (lines 170-171) the registry is empty, and
\* dynamically_add_type is as the caller says (line 134)
InitStatic ==
    /\ type_attributes = <<>>
    /\ dynamically_add_type \in BOOLEAN
    /\ elements = <<>>
    /\ entry_dict = <<>>
    /\ heap = <<>>
    /\ issued = {}
    /\ deleted = {}

NextStatic ==
    \/ \E type_name \in TypeNames, sp \in Spans, tid \in TidSpace :
           add_annotation_raw(type_name, sp[1], sp[2], tid)
    \/ \E tid \in TidSpace : delete_entry(tid)
    \/ \E tid \in TidSpace : get_entry(tid)

SpecStatic == InitStatic /\ [][NextStatic]_vars

\* the record factory called on its own, beside the one operation that
\* stores an entry
NextFactory ==
    \/ \E type_name \in TypeNames, sp \in Spans, tid \in TidSpace :
           add_annotation_raw(type_name, sp[1], sp[2], tid)
    \/ \E type_name \in TypeNames, sp \in Spans, tid \in TidSpace :
           new_annotation(type_name, sp[1], sp[2], tid)
    \/ \E type_name \in LinkNames, parent_tid \in TidSpace, child_tid \in TidSpace,
           tid \in TidSpace : new_link(type_name, parent_tid, child_tid, tid)
    \/ \E type_name \in GroupNames, member_type \in TypeNames, tid \in TidSpace :
           new_group(type_name, member_type, tid)

SpecFactory == Init /\ [][NextFactory]_vars

(***************************************************************************)
(* Vocabulary of the properties.                                           *)
(***************************************************************************)
\* the slots <<i, j>> of the Per-Type Index: container i, position j
Slots == {s \in (1..Len(elements)) \X (1..MaxTid) : s[2] <= Len(elements[s[1]].list)}

SlotAddr(s) == elements[s[1]].list[s[2]]

\* the slots that hold a record whose id is tid
HoldersOf(tid) == {s \in Slots : heap[SlotAddr(s)][TID_INDEX + 1] = tid}

\* the slots of the container named by the record's own type name
HomeSlots == {s \in Slots : elements[s[1]].name = heap[SlotAddr(s)][ENTRY_TYPE_INDEX + 1]}

\* id tid is in the Identity Index and located, by the same object, in its container
Indexed(tid) ==
    /\ tid \in DOMAIN entry_dict
    /\ Cardinality(HoldersOf(tid) \cap HomeSlots) = 1
    /\ \A s \in HoldersOf(tid) \cap HomeSlots : SlotAddr(s) = entry_dict[tid]

Consistent ==
    \A tid \in TidSpace :
        /\ tid \in DOMAIN entry_dict => Indexed(tid)
        /\ HoldersOf(tid) \cap HomeSlots # {} => tid \in DOMAIN entry_dict

SortedContainer(lst) ==
    \A j, k \in 1..Len(lst) : j < k => KeyLeq(Key(heap[lst[j]]), Key(heap[lst[k]]))

(***************************************************************************)
(* C1. Dual-index consistency: in every reachable state an id is a key of  *)
(* the Identity Index iff exactly one record with that id is held in the   *)
(* container named by the record's type, and both indices refer to the     *)
(* same record.  Refuted: a delete_entry that raises RuntimeError has      *)
(* already popped the id.                                                  *)
(***************************************************************************)
C1_DualIndexConsistency == Consistent

(***************************************************************************)
(* C2. Sorted invariant: in every reachable state every container of the   *)
(* Per-Type Index is in non-decreasing order of (begin, end).              *)
(***************************************************************************)
C2_Sorted == \A i \in 1..Len(elements) : SortedContainer(elements[i].list)

\* after an addition and a deletion, a container holds two records of different
\* keys, the later created of which is stored first
C2_Witness ==
    /\ deleted # {}
    /\ \E i \in 1..Len(elements) :
           LET lst == elements[i].list
           IN  /\ Len(lst) = 2
               /\ lst[1] > lst[2]
               /\ Key(heap[lst[1]]) # Key(heap[lst[2]])

(***************************************************************************)
(* C3. No partial mutation on failure: a call of add_annotation_raw,       *)
(* set_attribute or delete_entry that raises leaves the Per-Type Index and *)
(* the Identity Index as they were.  Refuted by delete_entry, which pops   *)
(* the id before it raises RuntimeError.                                   *)
(***************************************************************************)
C3_NoPartialMutation ==
    [][/\ \A tid \in TidSpace :
              delete_entry_err(tid) # "ok" /\ delete_entry(tid)
                  => UNCHANGED store
       /\ \A tid \in TidSpace, attr_name \in AttrNames, attr_value \in Values :
              AttrErr(tid, attr_name) # "ok" /\ set_attribute(tid, attr_name, attr_value)
                  => UNCHANGED store
       /\ \A type_name \in TypeNames, sp \in Spans, tid \in TidSpace \ issued :
              add_annotation_raw_err(type_name) # "ok"
                      /\ add_annotation_raw(type_name, sp[1], sp[2], tid)
                  => UNCHANGED store]_vars

(***************************************************************************)
(* C4. delete_entry(tid) raises nothing for any tid that is a key of the   *)
(* Identity Index, whatever the relative order of the ids of the records   *)
(* that share its (begin, end).  Refuted: bisect_left compares whole       *)
(* entries, and the container is ordered by (begin, end) only.             *)
(***************************************************************************)
C4_DeleteSucceeds == \A tid \in DOMAIN entry_dict : delete_entry_err(tid) = "ok"

(***************************************************************************)
(* C5. A delete_entry(tid) that raises nothing removes exactly the record  *)
(* whose id is tid: its container loses that one record (and is dropped    *)
(* from the Per-Type Index if it held no other), the other records of the  *)
(* container keep their relative order, and every other container and      *)
(* every other record is unchanged.                                        *)
(***************************************************************************)
Remove(lst, a) == SelectSeq(lst, LAMBDA x : x # a)

ContainerOf(elems, type_name) ==
    IF type_name \in DictKeys(elems) THEN DictGet(elems, type_name) ELSE <<>>

C5_DeleteEffect ==
    [][\A tid \in DOMAIN entry_dict :
           delete_entry_err(tid) = "ok" /\ delete_entry(tid) =>
               LET a == entry_dict[tid]
                   type_name == heap[a][ENTRY_TYPE_INDEX + 1]
                   lst == DictGet(elements, type_name)
               IN  /\ heap[a][TID_INDEX + 1] = tid
                   /\ Cardinality({j \in 1..Len(lst) : lst[j] = a}) = 1
                   /\ ContainerOf(elements', type_name) = Remove(lst, a)
                   /\ Len(ContainerOf(elements', type_name)) = Len(lst) - 1
                   /\ type_name \in DictKeys(elements') <=> Len(lst) > 1
                   /\ DictKeys(elements') \subseteq DictKeys(elements)
                   /\ \A u \in DictKeys(elements) \ {type_name} :
                          /\ u \in DictKeys(elements')
                          /\ DictGet(elements', u) = DictGet(elements, u)
                   /\ \A b \in DOMAIN heap' : heap'[b] = heap[b]]_vars

\* three records were added, two of one type and one of the other; the one of
\* the other type was deleted, and its container is gone
C5_Witness ==
    /\ deleted # {}
    /\ Cardinality(DOMAIN type_attributes) = 2
    /\ Len(elements) = 1
    /\ Len(elements[1].list) = 2

(***************************************************************************)
(* C6. A deleted id never resolves again: once delete_entry(tid) has       *)
(* returned, tid is no key of the Identity Index and no container holds a  *)
(* record with that id, and delete_entry, get_entry, get_attribute,        *)
(* set_attribute, get_entry_index, next_entry and prev_entry of tid raise  *)
(* the error of an unknown id.                                             *)
(***************************************************************************)
C6_DeletedNeverResolves ==
    \A tid \in deleted :
        /\ tid \notin DOMAIN entry_dict
        /\ HoldersOf(tid) = {}
        /\ delete_entry_err(tid) = "KeyError"
        /\ get_entry_result(tid).err = "ValueError"
        /\ get_entry_index_result(tid).err = "ValueError"
        /\ next_entry_result(tid).err = "ValueError"
        /\ prev_entry_result(tid).err = "ValueError"
        /\ \A attr_name \in AttrNames : AttrErr(tid, attr_name) = "KeyError(tid)"

\* an id was deleted, every tid of the model was drawn, and the record created
\* last is in the store
C6_Witness ==
    \E tid \in deleted, later \in DOMAIN entry_dict :
        /\ Cardinality(issued) = MaxTid
        /\ entry_dict[later] = MaxTid

(***************************************************************************)
(* C7. add_annotation_raw(type_name, begin, end) on a resolvable type      *)
(* leaves the store with exactly one more record, [begin, end, tid,        *)
(* type_name, None, ..., None] with one None per attribute of the type:    *)
(* the container of type_name is created if absent and gains that record,  *)
(* the Identity Index gains the key tid for that record, and every other   *)
(* container, record and Identity Index entry is unchanged.                *)
(***************************************************************************)
AttributesOf(type_name) ==
    LET attributes == _get_entry_attributes_by_class(type_name)
    IN  {attributes[i] : i \in 1..Len(attributes)}

C7_AddEffect ==
    [][\A type_name \in TypeNames, sp \in Spans, tid \in TidSpace \ issued :
           add_annotation_raw_err(type_name) = "ok"
                   /\ add_annotation_raw(type_name, sp[1], sp[2], tid) =>
               /\ Cardinality(DOMAIN heap' \ DOMAIN heap) = 1
               /\ type_name \in DictKeys(elements')
               /\ DictKeys(elements') = DictKeys(elements) \cup {type_name}
               /\ \A a \in DOMAIN heap' \ DOMAIN heap :
                      /\ heap'[a] = <<sp[1], sp[2], tid, type_name>>
                                        \o Nones(Cardinality(AttributesOf(type_name)))
                      /\ Remove(DictGet(elements', type_name), a)
                             = ContainerOf(elements, type_name)
                      /\ Len(DictGet(elements', type_name))
                             = Len(ContainerOf(elements, type_name)) + 1
                      /\ tid \notin DOMAIN entry_dict
                      /\ DOMAIN entry_dict' = DOMAIN entry_dict \cup {tid}
                      /\ entry_dict'[tid] = a
               /\ \A k \in DOMAIN entry_dict : entry_dict'[k] = entry_dict[k]
               /\ \A u \in DictKeys(elements) \ {type_name} :
                      DictGet(elements', u) = DictGet(elements, u)
               /\ \A b \in DOMAIN heap : b \in DOMAIN heap' /\ heap'[b] = heap[b]]_vars

\* a record was added to a container that held one already, and a second
\* container was created; the record last created has no attribute set
C7_Witness ==
    /\ Len(elements) = 2
    /\ \E i \in 1..Len(elements) : Len(elements[i].list) = 2
    /\ MaxTid \in DOMAIN heap
    /\ heap[MaxTid][ENTRY_TYPE_INDEX + 1] = "Sentence"
    /\ SubSeq(heap[MaxTid], ENTRY_TYPE_INDEX + 2, Len(heap[MaxTid])) = <<None, None>>

(***************************************************************************)
(* C8. Attribute round-trip: get_attribute of an attribute of a record     *)
(* just added returns None; after set_attribute(tid, a, v) it returns v;   *)
(* and as long as tid is not passed to delete_entry, the value it returns  *)
(* changes by a set_attribute(tid, a, _) only: not by adding or deleting   *)
(* other records, nor by writing other attributes or other records.        *)
(***************************************************************************)
C8_RoundTrip ==
    [][/\ \A type_name \in TypeNames, sp \in Spans, tid \in TidSpace \ issued :
              add_annotation_raw_err(type_name) = "ok"
                      /\ add_annotation_raw(type_name, sp[1], sp[2], tid) =>
                  \A attr_name \in AttributesOf(type_name) :
                      /\ AttrErr(tid, attr_name)' = "ok"
                      /\ get_attribute_ret(tid, attr_name)' = None
       /\ \A tid \in DOMAIN entry_dict, attr_name \in AttrNames, attr_value \in Values :
              AttrErr(tid, attr_name) = "ok"
                      /\ set_attribute(tid, attr_name, attr_value) =>
                  /\ AttrErr(tid, attr_name)' = "ok"
                  /\ get_attribute_ret(tid, attr_name)' = attr_value
       /\ \A tid \in DOMAIN entry_dict, attr_name \in AttrNames :
              AttrErr(tid, attr_name) = "ok" =>
                  \/ /\ AttrErr(tid, attr_name)' = "ok"
                     /\ get_attribute_ret(tid, attr_name)' = get_attribute_ret(tid, attr_name)
                  \/ \E attr_value \in Values : set_attribute(tid, attr_name, attr_value)
                  \/ delete_entry(tid)]_vars

\* one attribute of a record was written and its other attribute was not, and
\* another record was deleted since the record was created
C8_Witness ==
    \E tid \in DOMAIN entry_dict :
        /\ AttrErr(tid, "speaker") = "ok"
        /\ get_attribute_ret(tid, "speaker") = None
        /\ get_attribute_ret(tid, "part_id") \in Values
        /\ deleted # {}

(***************************************************************************)
(* C9. In a consistent store get_entry_index(tid) returns, for every key   *)
(* tid of the Identity Index, the position at which the container of the   *)
(* record's type holds the record, also when the record shares its         *)
(* (begin, end) with records stored before it.  Refuted: bisect_left       *)
(* yields the first position of the key, and no scan of the ties follows.  *)
(***************************************************************************)
\* the 0-based position of the record of tid in the container of its type
PositionOf(tid) == (CHOOSE s \in HoldersOf(tid) \cap HomeSlots : TRUE)[2] - 1

HomeList(tid) == DictGet(elements, heap[entry_dict[tid]][ENTRY_TYPE_INDEX + 1])

C9_EntryIndex ==
    Consistent =>
        \A tid \in DOMAIN entry_dict :
            get_entry_index_result(tid) = Result("ok", PositionOf(tid))

(***************************************************************************)
(* C10. In a consistent store next_entry(tid) returns the record stored    *)
(* right after the record of tid in its container, and None for the last   *)
(* one; prev_entry(tid) the record stored right before it, and None for    *)
(* the first one; for every record, ties of (begin, end) included.         *)
(* Refuted through get_entry_index (C9).                                   *)
(***************************************************************************)
C10_NextPrev ==
    Consistent =>
        \A tid \in DOMAIN entry_dict :
            LET lst == HomeList(tid)
                p == PositionOf(tid)
            IN  /\ next_entry_result(tid)
                       = Result("ok", IF p = Len(lst) - 1 THEN None ELSE lst[p + 2])
                /\ prev_entry_result(tid)
                       = Result("ok", IF p = 0 THEN None ELSE lst[p])

(***************************************************************************)
(* C11. If tid is still a key of the Identity Index and its record has     *)
(* been taken out of its container without updating the Identity Index,    *)
(* next_entry(tid) and prev_entry(tid) both raise IndexError.  Refuted:    *)
(* get_entry_index raises ValueError before the range test of next_entry   *)
(* and prev_entry is reached.                                              *)
(***************************************************************************)
\* tid is a key of the Identity Index, the container of its type exists, and
\* the container does not hold the record
Dangling(tid) ==
    /\ tid \in DOMAIN entry_dict
    /\ heap[entry_dict[tid]][ENTRY_TYPE_INDEX + 1] \in DictKeys(elements)
    /\ \A j \in 1..Len(HomeList(tid)) : HomeList(tid)[j] # entry_dict[tid]

C11_IndexOutOfRange ==
    \A tid \in TidSpace :
        Dangling(tid) =>
            /\ next_entry_result(tid).err = "IndexError"
            /\ prev_entry_result(tid).err = "IndexError"

(***************************************************************************)
(* C12. Merge ordering: for every list of type names that all have         *)
(* containers, the sequence co_iterator_annotation_like yields is          *)
(* non-decreasing in (begin, end, index of the record's type name in the   *)
(* list); for a name listed twice the index is that of the occurrence the  *)
(* record is drawn for.  Containers A = [(0,5),(10,12)] and                *)
(* B = [(2,4),(10,12)] merged in the order [A, B] yield (0,5)@A, (2,4)@B,  *)
(* (10,12)@A, (10,12)@B.                                                   *)
(***************************************************************************)
\* the call on the store of the model
Merge(type_names) == co_iterator_annotation_like_result(heap, elements, type_names)

\* the triple of the k-th entry yielded
Triple(out, k) ==
    <<heap[out[k][2]][BEGIN_INDEX + 1], heap[out[k][2]][END_INDEX + 1], out[k][1]>>

TripleLeq(x, y) ==
    \/ KeyLess(x, y)
    \/ x[1] = y[1] /\ x[2] = y[2] /\ x[3] <= y[3]

\* the store of the example: A is Sentence, B is Document
ExampleHeap ==
    <<<<0, 5, 1, "Sentence", None, None>>, <<10, 12, 2, "Sentence", None, None>>,
      <<2, 4, 3, "Document">>, <<10, 12, 4, "Document">>>>

ExampleElements ==
    <<[name |-> "Sentence", list |-> <<1, 2>>], [name |-> "Document", list |-> <<3, 4>>]>>

C12_MergeOrder ==
    /\ \A type_names \in TypeNameLists :
           (\A i \in 1..Len(type_names) : type_names[i] \in DictKeys(elements)) =>
               LET r == Merge(type_names)
               IN  /\ r.err = "ok"
                   /\ \A k \in 1..Len(r.ret) :
                          type_names[r.ret[k][1] + 1] = heap[r.ret[k][2]][ENTRY_TYPE_INDEX + 1]
                   /\ \A k \in 1..(Len(r.ret) - 1) :
                          TripleLeq(Triple(r.ret, k), Triple(r.ret, k + 1))
    /\ co_iterator_annotation_like_result(ExampleHeap, ExampleElements,
                                          <<"Sentence", "Document">>)
           = Result("ok", <<<<0, 1>>, <<1, 3>>, <<0, 2>>, <<1, 4>>>>)

\* a merge of two containers yields a record of the second between two records
\* of the first
C12_Witness ==
    \E type_names \in TypeNameLists :
        /\ Len(type_names) = 2
        /\ \A i \in 1..2 : type_names[i] \in DictKeys(elements)
        /\ LET out == Merge(type_names).ret
           IN  /\ Len(out) = 3
               /\ out[1][1] = 0 /\ out[2][1] = 1 /\ out[3][1] = 0

(***************************************************************************)
(* C13. Merge completeness and termination: for a list of distinct type    *)
(* names that all have containers, co_iterator_annotation_like ends after  *)
(* yielding as many records as the named containers hold together, yields  *)
(* every record of every named container exactly once, and yields the      *)
(* records of one container in the order the container stores them.        *)
(***************************************************************************)
RECURSIVE SumLen(_, _)
SumLen(type_names, i) ==
    IF i > Len(type_names) THEN 0
    ELSE Len(DictGet(elements, type_names[i])) + SumLen(type_names, i + 1)

\* the entries of out, in order
Yielded(out) == [k \in 1..Len(out) |-> out[k][2]]

InList(lst, a) == \E j \in 1..Len(lst) : lst[j] = a

C13_MergeComplete ==
    \A type_names \in TypeNameLists :
        (/\ \A i \in 1..Len(type_names) : type_names[i] \in DictKeys(elements)
         /\ \A i, j \in 1..Len(type_names) : type_names[i] = type_names[j] => i = j) =>
            LET r == Merge(type_names)
                out == Yielded(r.ret)
            IN  /\ r.err = "ok"
                /\ Len(out) = SumLen(type_names, 1)
                /\ \A i \in 1..Len(type_names) :
                       LET lst == DictGet(elements, type_names[i])
                       IN  /\ SelectSeq(out, LAMBDA a : InList(lst, a)) = lst
                           /\ \A j \in 1..Len(lst) :
                                  Cardinality({k \in 1..Len(out) : out[k] = lst[j]}) = 1

\* a merge of two containers yields three records of one (begin, end), those
\* of the container named first before those of the other
C13_Witness ==
    \E type_names \in TypeNameLists :
        /\ Len(type_names) = 2
        /\ type_names[1] # type_names[2]
        /\ \A i \in 1..2 : type_names[i] \in DictKeys(elements)
        /\ LET out == Merge(type_names).ret
           IN  /\ Len(out) = 3
               /\ \A k \in 1..3 : Key(heap[out[k][2]]) = Key(heap[out[1][2]])
               /\ out[1][1] = 0 /\ out[2][1] = 0 /\ out[3][1] = 1

(***************************************************************************)
(* C14. co_iterator_annotation_like raises the ValueError of an            *)
(* unrecognized type name if a name of its list has no container in the    *)
(* Per-Type Index, as is the case of a type whose last record was deleted, *)
(* and the ValueError of an empty entry list if a named container is       *)
(* empty; either way it yields no record.                                  *)
(***************************************************************************)
\* the positions of type_names whose name has no container, or an empty one
Unknown(type_names) == {i \in 1..Len(type_names) : type_names[i] \notin DictKeys(elements)}

Empty(type_names) ==
    {i \in 1..Len(type_names) \ Unknown(type_names) : DictGet(elements, type_names[i]) = <<>>}

\* the types that have a record in a container
Populated == {heap[SlotAddr(s)][ENTRY_TYPE_INDEX + 1] : s \in Slots}

C14_MergeErrors ==
    /\ \A type_names \in TypeNameLists :
           LET r == Merge(type_names)
               bad == Unknown(type_names) \cup Empty(type_names)
           IN  /\ bad # {} =>
                      /\ r.err # "ok"
                      /\ r.ret = <<>>
                      /\ r.err = IF (CHOOSE i \in bad : \A j \in bad : i <= j) \in Unknown(type_names)
                                 THEN "ValueError(not recognized)"
                                 ELSE "ValueError(empty)"
               /\ bad = {} => r.err = "ok"
    /\ \A type_name \in DOMAIN type_attributes \ Populated :
           Merge(<<type_name>>) = Result("ValueError(not recognized)", <<>>)

\* the last record of a type was deleted and a record of another type is stored
C14_Witness ==
    /\ deleted # {}
    /\ DOMAIN type_attributes \ Populated # {}
    /\ Populated # {}
    /\ \E type_names \in TypeNameLists :
           /\ Len(type_names) = 2
           /\ type_names[1] \in Populated
           /\ type_names[2] \in DOMAIN type_attributes \ Populated
           /\ Merge(type_names).err = "ValueError(not recognized)"

(***************************************************************************)
(* C15. get(type_name, include_sub_type=True) yields exactly the records   *)
(* of every container whose type name is a reflexive subtype of type_name: *)
(* one container after another, in the order in which the containers were  *)
(* created in the Per-Type Index, and within a container in stored order;  *)
(* it yields nothing of the containers of other types.  With containers    *)
(* Sentence and Document, get(Annotation, True) yields the records of both.*)
(***************************************************************************)
\* the lineage of the classes of the model, as the spec states it: a class is
\* a subtype of itself, and Sentence and Document are children of Annotation
SubtypeOf(sub, sup) ==
    \/ sub = sup
    \/ sub \in {"Sentence", "Document"} /\ sup = "Annotation"

\* the containers of the subtypes of type_name
SubContainers(type_name) == {i \in 1..Len(elements) : SubtypeOf(elements[i].name, type_name)}

\* the positions of out that hold a record of container i
PositionsOf(out, i) == {k \in 1..Len(out) : InList(elements[i].list, out[k])}

RECURSIVE SumOver(_)
SumOver(S) ==
    IF S = {} THEN 0
    ELSE LET i == CHOOSE j \in S : TRUE
         IN  Len(elements[i].list) + SumOver(S \ {i})

C15_GetWithSubtypes ==
    \A type_name \in ClassNames :
        LET r == get_result(elements, type_name, TRUE)
            out == r.ret
            subs == SubContainers(type_name)
        IN  /\ r.err = "ok"
            /\ Len(out) = SumOver(subs)
            /\ \A k \in 1..Len(out) : \E i \in subs : InList(elements[i].list, out[k])
            /\ \A i \in subs :
                   SelectSeq(out, LAMBDA a : InList(elements[i].list, a)) = elements[i].list
            /\ \A i, j \in subs :
                   i < j => \A k \in PositionsOf(out, i), l \in PositionsOf(out, j) : k < l

\* after a deletion the Per-Type Index holds the container of Document and,
\* created after it, that of Sentence: get of Annotation yields the record of
\* Document and then that of Sentence, get of Sentence a single record
C15_Witness ==
    /\ Len(elements) = 2
    /\ elements[1].name = "Document"
    /\ deleted # {}
    /\ LET out == get_result(elements, "Annotation", TRUE).ret
       IN  /\ Len(out) = 2
           /\ heap[out[1]][ENTRY_TYPE_INDEX + 1] = "Document"
           /\ heap[out[2]][ENTRY_TYPE_INDEX + 1] = "Sentence"
    /\ Len(get_result(elements, "Sentence", TRUE).ret) = 1

(***************************************************************************)
(* C16. get(type_name, include_sub_type=False) yields exactly the records  *)
(* of the container named type_name, in stored order and with no record of *)
(* a subtype, and raises KeyError when no container is named type_name,    *)
(* also when containers of its subtypes exist.                             *)
(***************************************************************************)
C16_GetExact ==
    \A type_name \in GetTypeNames :
        LET r == get_result(elements, type_name, FALSE)
        IN  IF type_name \in DictKeys(elements)
            THEN /\ r = Result("ok", DictGet(elements, type_name))
                 /\ \A k \in 1..Len(r.ret) : heap[r.ret[k]][ENTRY_TYPE_INDEX + 1] = type_name
            ELSE r = Result("KeyError", <<>>)

\* containers of Sentence and of Document exist, of two records and of one,
\* and none of Annotation
C16_Witness ==
    /\ {"Sentence", "Document"} \subseteq DictKeys(elements)
    /\ "Annotation" \notin DictKeys(elements)
    /\ Len(get_result(elements, "Sentence", FALSE).ret) = 2
    /\ get_result(elements, "Annotation", FALSE).err = "KeyError"

(***************************************************************************)
(* C17. For every key tid of the Identity Index, get_entry(tid) returns    *)
(* (record, type_name) where the id field of record is tid and type_name   *)
(* is the type field of record; it raises ValueError when tid is no key,   *)
(* and the KeyError of a type without container in no state reached from   *)
(* the empty store through the public operations.                          *)
(***************************************************************************)
C17_GetEntry ==
    \A tid \in TidSpace :
        IF tid \in DOMAIN entry_dict
        THEN /\ get_entry_result(tid) = Result("ok", get_entry_ret(tid)[1])
             /\ heap[get_entry_ret(tid)[1]][TID_INDEX + 1] = tid
             /\ get_entry_ret(tid)[2] = heap[get_entry_ret(tid)[1]][ENTRY_TYPE_INDEX + 1]
             /\ get_entry_ret(tid)[2] \in DictKeys(elements)
        ELSE get_entry_result(tid) = Result("ValueError", None)

\* get_entry finds one id, and raises ValueError for an id whose record a
\* failed delete_entry left in its container
C17_Witness ==
    \E tid \in DOMAIN entry_dict, gone \in issued \ (DOMAIN entry_dict \cup deleted) :
        /\ get_entry_result(tid).err = "ok"
        /\ HoldersOf(gone) # {}
        /\ get_entry_result(gone).err = "ValueError"
        /\ tid # entry_dict[tid]

(***************************************************************************)
(* C18. set_attribute and get_attribute raise the KeyError of an unknown   *)
(* tid when tid is no key of the Identity Index, and the KeyError of an    *)
(* unknown attribute when the attribute name is not in the attributes of   *)
(* the record's type, as are the names of the fields of the fixed prefix;  *)
(* a set_attribute that raises changes no record and neither index.        *)
(***************************************************************************)
\* names for the four fields of the fixed prefix
PrefixNames == {"begin", "end", "tid", "type_name"}

C18_ErrorKinds ==
    \A tid \in TidSpace, attr_name \in AttrNames \cup PrefixNames :
        AttrErr(tid, attr_name) =
            IF tid \notin DOMAIN entry_dict THEN "KeyError(tid)"
            ELSE IF attr_name \in AttributesOf(heap[entry_dict[tid]][ENTRY_TYPE_INDEX + 1])
            THEN "ok"
            ELSE "KeyError(attr)"

C18_AttrErrors ==
    /\ []C18_ErrorKinds
    /\ [][\A tid \in TidSpace, attr_name \in AttrNames, attr_value \in Values :
              AttrErr(tid, attr_name) # "ok" /\ set_attribute(tid, attr_name, attr_value)
                  => UNCHANGED store]_vars

\* a record of a type without attributes and a record with an attribute
\* written are stored, and an id was deleted
C18_Witness ==
    \E t1, t2 \in DOMAIN entry_dict :
        /\ AttrErr(t1, "speaker") = "KeyError(attr)"
        /\ AttrErr(t2, "speaker") = "ok"
        /\ get_attribute_ret(t2, "speaker") \in Values
        /\ AttrErr(t2, "begin") = "KeyError(attr)"
        /\ \E tid \in deleted : AttrErr(tid, "speaker") = "KeyError(tid)"

(***************************************************************************)
(* C19. A write through the Identity Index is visible through the Per-Type *)
(* Index: after set_attribute(tid, a, v) the record of tid is yielded by   *)
(* get and by co_iterator_annotation_like of its type, and every record of *)
(* that tid that get, co_iterator_annotation_like, next_entry or           *)
(* prev_entry yields carries v in the slot of a.  In two parts: what the   *)
(* queries yield for tid is, in every state, the list object the Identity  *)
(* Index holds for tid; and set_attribute(tid, a, v) leaves v in the slot  *)
(* of a of that object.                                                    *)
(***************************************************************************)
\* the entry at address a is the record the Identity Index holds for its tid:
\* one list object, so a write through either is read through the other
SameRecord(a) ==
    LET tid == heap[a][TID_INDEX + 1]
    IN  tid \in DOMAIN entry_dict =>
            /\ a = entry_dict[tid]
            /\ \A attr_name \in AttributesOf(heap[a][ENTRY_TYPE_INDEX + 1]) :
                   heap[a][AttrId(tid, attr_name) + 1] = get_attribute_ret(tid, attr_name)

\* out, a sequence of addresses, holds a record of tid
YieldsTid(out, tid) == \E k \in 1..Len(out) : heap[out[k]][TID_INDEX + 1] = tid

\* the record of every key of the Identity Index is yielded, and what the
\* queries on the containers yield is the record of the Identity Index
C19_Shared ==
    /\ \A tid \in DOMAIN entry_dict :
           LET type_name == heap[entry_dict[tid]][ENTRY_TYPE_INDEX + 1]
           IN  /\ YieldsTid(get_result(elements, type_name, FALSE).ret, tid)
               /\ YieldsTid(get_result(elements, "Annotation", TRUE).ret, tid)
               /\ YieldsTid(Yielded(Merge(<<type_name>>).ret), tid)
    /\ \A name \in ClassNames, sub \in BOOLEAN :
           LET out == get_result(elements, name, sub).ret
           IN  \A k \in 1..Len(out) : SameRecord(out[k])
    /\ \A type_names \in TypeNameLists :
           LET out == Merge(type_names).ret
           IN  \A k \in 1..Len(out) : SameRecord(out[k][2])
    /\ \A t \in DOMAIN entry_dict :
           LET n == next_entry_result(t)
               p == prev_entry_result(t)
           IN  /\ n.err = "ok" /\ n.ret # None => SameRecord(n.ret)
               /\ p.err = "ok" /\ p.ret # None => SameRecord(p.ret)

C19_WriteVisible ==
    /\ []C19_Shared
    /\ [][\A tid \in DOMAIN entry_dict, attr_name \in AttrNames, attr_value \in Values :
              AttrErr(tid, attr_name) = "ok" /\ set_attribute(tid, attr_name, attr_value) =>
                  heap'[entry_dict'[tid]][AttrId(tid, attr_name) + 1] = attr_value]_vars

\* next_entry of a record returns a record whose attribute was written, and
\* prev_entry of that one the first
C19_Witness ==
    \E t1, t2 \in DOMAIN entry_dict :
        /\ t1 # t2
        /\ next_entry_result(t1) = Result("ok", entry_dict[t2])
        /\ prev_entry_result(t2) = Result("ok", entry_dict[t1])
        /\ AttrErr(t2, "part_id") = "ok"
        /\ get_attribute_ret(t2, "part_id") \in Values
        /\ get_attribute_ret(t1, "part_id") = None

(***************************************************************************)
(* C20. Identity freshness: the tid add_annotation_raw returns differs     *)
(* from every tid an earlier add_annotation_raw on the store returned,     *)
(* those of records deleted since included, and the id field of a stored   *)
(* record never changes.  uuid4 is taken to produce no value twice.        *)
(***************************************************************************)
\* the ids the records of the store carry
StoredIds == {heap[a][TID_INDEX + 1] : a \in DOMAIN heap}

\* no two records carry one id, every id in use was returned by an add, and
\* no record carries the id of a deleted one
C20_Distinct ==
    /\ \A a, b \in DOMAIN heap : heap[a][TID_INDEX + 1] = heap[b][TID_INDEX + 1] => a = b
    /\ StoredIds \cup DOMAIN entry_dict \cup deleted \subseteq issued
    /\ StoredIds \cap deleted = {}

C20_Freshness ==
    /\ []C20_Distinct
    /\ [][/\ \A type_name \in TypeNames, sp \in Spans, tid \in TidSpace \ issued :
                 add_annotation_raw_err(type_name) = "ok"
                         /\ add_annotation_raw(type_name, sp[1], sp[2], tid) =>
                     /\ tid \notin StoredIds \cup DOMAIN entry_dict \cup deleted
                     /\ tid \in DOMAIN entry_dict'
                     /\ heap'[entry_dict'[tid]][TID_INDEX + 1] = tid
          /\ \A a \in DOMAIN heap \cap DOMAIN heap' :
                 heap'[a][TID_INDEX + 1] = heap[a][TID_INDEX + 1]]_vars

\* every id of the model was returned and one was deleted; the record created
\* last is stored, an attribute of it was written, and its id is less than
\* the deleted one
C20_Witness ==
    \E tid \in DOMAIN entry_dict, d \in deleted :
        /\ Cardinality(issued) = MaxTid
        /\ entry_dict[tid] = MaxTid
        /\ tid < d
        /\ AttrErr(tid, "speaker") = "ok"
        /\ get_attribute_ret(tid, "speaker") \in Values

(***************************************************************************)
(* C21. In every state reached through the public operations every key of  *)
(* the Per-Type Index maps to a non-empty container: deleting the last     *)
(* record of a type removes the key, so co_iterator_annotation_like never  *)
(* raises the ValueError of an empty entry list.                           *)
(***************************************************************************)
C21_NonEmpty ==
    /\ \A i \in 1..Len(elements) : elements[i].list # <<>>
    /\ \A type_names \in TypeNameLists : Merge(type_names).err # "ValueError(empty)"

\* two types were registered, the only record of one of them was deleted, and
\* the one container left holds one record
C21_Witness ==
    /\ deleted # {}
    /\ Cardinality(DOMAIN type_attributes) = 2
    /\ Len(elements) = 1
    /\ Len(elements[1].list) = 1
    /\ Cardinality(DOMAIN entry_dict) = 1

(***************************************************************************)
(* C22. _get_type_info with dynamic registration enabled assigns the       *)
(* attributes of a new type the consecutive slots 4, 5, 6, ... in the      *)
(* order of their declaration, so that every record of the type has length *)
(* 4 + number of attributes, and distinct attribute names map to distinct  *)
(* slots, none of which is a slot of the fixed prefix (0..3).              *)
(***************************************************************************)
C22_SlotOffsets ==
    /\ \A type_name \in DOMAIN type_attributes :
           LET attributes == _get_entry_attributes_by_class(type_name)
               attr_dict == type_attributes[type_name]
           IN  /\ DOMAIN attr_dict = {attributes[i] : i \in 1..Len(attributes)}
               /\ \A i \in 1..Len(attributes) : attr_dict[attributes[i]] = 3 + i
               /\ \A m, n \in DOMAIN attr_dict : attr_dict[m] = attr_dict[n] => m = n
               /\ \A n \in DOMAIN attr_dict : attr_dict[n] \notin 0..3
    /\ \A a \in DOMAIN heap :
           /\ heap[a][ENTRY_TYPE_INDEX + 1] \in DOMAIN type_attributes
           /\ Len(heap[a]) = 4 + Cardinality(DOMAIN type_attributes[heap[a][ENTRY_TYPE_INDEX + 1]])

\* a type of two attributes and a type of none are registered, and a record
\* carries a value in its last slot and none in the slot before
C22_Witness ==
    /\ DOMAIN type_attributes = {"Sentence", "Document"}
    /\ \E a, b \in DOMAIN heap :
           /\ Len(heap[a]) = 6
           /\ heap[a][6] \in Values
           /\ heap[a][5] = None
           /\ Len(heap[b]) = 4

(***************************************************************************)
(* C23. Registration is monotonic: once a type name is a key of            *)
(* _type_attributes, no public operation removes it or changes its         *)
(* attribute-to-slot mapping, also when every record of the type is        *)
(* deleted and its container dropped, and when records of the type are     *)
(* added again.                                                            *)
(***************************************************************************)
C23_Monotonic ==
    [][\A type_name \in DOMAIN type_attributes :
           /\ type_name \in DOMAIN type_attributes'
           /\ type_attributes'[type_name] = type_attributes[type_name]]_vars

\* both types are registered and every container was dropped: all records
\* added were deleted
C23_Witness ==
    /\ DOMAIN type_attributes = {"Sentence", "Document"}
    /\ elements = <<>>
    /\ Cardinality(deleted) >= 2

(***************************************************************************)
(* C24. When dynamic registration is disabled and a type name is no key of *)
(* the registry, resolving it raises ValueError, and add_annotation_raw of *)
(* such a type raises before it changes anything: the registry, the        *)
(* Per-Type Index and the Identity Index are as they were.                 *)
(***************************************************************************)
C24_Resolve ==
    ~dynamically_add_type =>
        \A type_name \in TypeNames \ DOMAIN type_attributes :
            /\ TypeInfoErr(type_attributes, dynamically_add_type, type_name) = "ValueError"
            /\ add_annotation_raw_err(type_name) = "ValueError"

C25_SetAttributeFrame ==
    [][\A tid \in DOMAIN entry_dict, attr_name \in AttrNames, attr_value \in Values :
           AttrErr(tid, attr_name) = "ok" /\ set_attribute(tid, attr_name, attr_value) =>
               LET a == entry_dict[tid]
                   slot == AttrId(tid, attr_name) + 1
               IN  /\ elements' = elements
                   /\ entry_dict' = entry_dict
                   /\ type_attributes' = type_attributes
                   /\ DOMAIN heap' = DOMAIN heap
                   /\ \A b \in DOMAIN heap \ {a} : heap'[b] = heap[b]
                   /\ Len(heap'[a]) = Len(heap[a])
                   /\ \A i \in 1..Len(heap[a]) : i # slot => heap'[a][i] = heap[a][i]
                   /\ heap'[a][slot] = attr_value
                   /\ slot > ENTRY_TYPE_INDEX + 1
                   /\ Key(heap'[a]) = Key(heap[a])]_vars

\* both attributes of a record were written, the record is stored after a
\* record of its type that has none written, and a record of the other type
\* is stored
C25_Witness ==
    /\ Len(elements) = 2
    /\ \E t1, t2 \in DOMAIN entry_dict :
           /\ AttrErr(t2, "speaker") = "ok"
           /\ get_attribute_ret(t2, "speaker") \in Values
           /\ get_attribute_ret(t2, "part_id") \in Values
           /\ \E i \in 1..Len(elements) : elements[i].list = <<entry_dict[t1], entry_dict[t2]>>
           /\ get_attribute_ret(t1, "speaker") = None
           /\ get_attribute_ret(t1, "part_id") = None

(***************************************************************************)
(* C26. The queries get_attribute, get_entry, get_entry_index, next_entry, *)
(* prev_entry, get and co_iterator_annotation_like, whether they return or *)
(* raise, leave the Per-Type Index, the Identity Index and every stored    *)
(* record unchanged.                                                       *)
(***************************************************************************)
\* the step is a call of one of the queries
Query ==
    \/ \E tid \in TidSpace, attr_name \in AttrNames : get_attribute(tid, attr_name)
    \/ \E tid \in TidSpace :
           get_entry(tid) \/ get_entry_index(tid) \/ next_entry(tid) \/ prev_entry(tid)
    \/ \E type_name \in GetTypeNames, include_sub_type \in BOOLEAN :
           get(type_name, include_sub_type)
    \/ \E type_names \in TypeNameLists : co_iterator_annotation_like(type_names)

C26_QueriesFrame == [][UNCHANGED store \/ ~Query]_vars

\* a store of two containers on which every kind of query has a call that
\* returns and a call that raises
C26_Witness ==
    /\ Len(elements) = 2
    /\ \E t1, t2 \in TidSpace :
           /\ get_entry_result(t1).err = "ok" /\ get_entry_result(t2).err = "ValueError"
           /\ get_entry_index_result(t1).err = "ok"
           /\ next_entry_result(t1).err = "ok" /\ prev_entry_result(t2).err = "ValueError"
           /\ AttrErr(t1, "speaker") = "ok" /\ AttrErr(t1, "begin") = "KeyError(attr)"
    /\ get_result(elements, "Annotation", TRUE).err = "ok"
    /\ get_result(elements, "Annotation", FALSE).err = "KeyError"
    /\ Merge(<<"Sentence", "Document">>).err = "ok"
    /\ Merge(<<"Sentence", "NoSuchClass">>).err = "ValueError(not recognized)"

(***************************************************************************)
(* C27. Ties keep insertion order: in every reachable state, among the     *)
(* records of one container that have the same (begin, end), a record      *)
(* added earlier is stored before a record added later; deleting other     *)
(* records does not change this relative order.  A list object's address   *)
(* is its rank in creation order, and add_annotation_raw, the only         *)
(* operation that inserts, creates the record it inserts.                  *)
(***************************************************************************)
C27_TiesKeepInsertionOrder ==
    \A i \in 1..Len(elements) :
        LET lst == elements[i].list
        IN  \A j, k \in 1..Len(lst) :
                j < k /\ Key(heap[lst[j]]) = Key(heap[lst[k]]) => lst[j] < lst[k]

\* the first record added has been deleted, and its container still holds
\* the two records of one key that were added after it
C27_Witness ==
    /\ deleted = {1}
    /\ \E i \in 1..Len(elements) :
           LET lst == elements[i].list
           IN  /\ lst = <<2, 3>>
               /\ Key(heap[2]) = Key(heap[3])

(***************************************************************************)
(* C28. add_link_raw and add_group_raw are stubs: in every state each call *)
(* raises NotImplementedError and leaves the registry, the Per-Type Index  *)
(* and the Identity Index unchanged; consequently every record of a store  *)
(* reachable through the public operations is an interval-kind record.     *)
(***************************************************************************)
\* an entry as _new_annotation builds it: the type is Annotation-like, which
\* is how delete_entry and get_entry_index tell the kinds apart, the first
\* two fields are offsets and one slot follows the prefix for each attribute
IntervalKind(e) ==
    /\ _is_annotation(e[ENTRY_TYPE_INDEX + 1])
    /\ e[BEGIN_INDEX + 1] \in Positions
    /\ e[END_INDEX + 1] \in Positions
    /\ e[TID_INDEX + 1] \in TidSpace
    /\ e[ENTRY_TYPE_INDEX + 1] \in DOMAIN type_attributes
    /\ Len(e) = ENTRY_TYPE_INDEX + 1
                    + Cardinality(DOMAIN type_attributes[e[ENTRY_TYPE_INDEX + 1]])

C28_IntervalKind ==
    /\ \A a \in DOMAIN heap : IntervalKind(heap[a])
    /\ \A i \in 1..Len(elements) : _is_annotation(elements[i].name)
    /\ \A type_name \in LinkNames, parent_tid \in TidSpace, child_tid \in TidSpace :
           add_link_raw_err(type_name, parent_tid, child_tid) = "NotImplementedError"
    /\ \A type_name \in GroupNames, member_type \in TypeNames :
           add_group_raw_err(type_name, member_type) = "NotImplementedError"

\* the step is a call of one of the two stubs
StubCall ==
    \/ \E type_name \in LinkNames, parent_tid \in TidSpace, child_tid \in TidSpace :
           add_link_raw(type_name, parent_tid, child_tid)
    \/ \E type_name \in GroupNames, member_type \in TypeNames :
           add_group_raw(type_name, member_type)

FactoryShape(e, prefix, type_name, extra) ==
    /\ SubSeq(e, 1, ENTRY_TYPE_INDEX + 1) = prefix
    /\ Len(e) = ENTRY_TYPE_INDEX + 1 + Cardinality(DOMAIN type_attributes'[type_name]) + extra
    /\ \A i \in (ENTRY_TYPE_INDEX + 2)..Len(e) : e[i] = None

\* a call of the factory that returns: what it returns has the shape, with
\* `extra` more fields for a link or a group, and the store is as before
FactoryCalls(extra) ==
    /\ \A type_name \in TypeNames, sp \in Spans, tid \in TidSpace :
           /\ TypeInfoErr(type_attributes, dynamically_add_type, type_name) = "ok"
           /\ new_annotation(type_name, sp[1], sp[2], tid)
           => /\ FactoryShape(_new_annotation(type_attributes, type_name, sp[1], sp[2], tid),
                              <<sp[1], sp[2], tid, type_name>>, type_name, 0)
              /\ UNCHANGED store
    /\ \A type_name \in LinkNames, parent_tid \in TidSpace, child_tid \in TidSpace,
          tid \in TidSpace :
           /\ TypeInfoErr(type_attributes, dynamically_add_type, type_name) = "ok"
           /\ new_link(type_name, parent_tid, child_tid, tid)
           => /\ FactoryShape(_new_link(type_attributes, type_name, parent_tid, child_tid, tid),
                              <<parent_tid, child_tid, tid, type_name>>, type_name, extra)
              /\ UNCHANGED store
    /\ \A type_name \in GroupNames, member_type \in TypeNames, tid \in TidSpace :
           /\ TypeInfoErr(type_attributes, dynamically_add_type, type_name) = "ok"
           /\ new_group(type_name, member_type, tid)
           => /\ FactoryShape(_new_group(type_attributes, type_name, member_type, tid),
                              <<member_type, <<>>, tid, type_name>>, type_name, extra)
              /\ UNCHANGED store

\* the claim as stated: a link or a group has a trailing position field
C29_TrailingField == [][FactoryCalls(1)]_vars

\* the claim as amended: no kind has a field after its attribute slots
C29_Factory == [][FactoryCalls(0)]_vars

\* each of the three has been called and has returned, nothing is stored
C29_Witness ==
    /\ DOMAIN type_attributes = {"Sentence", "Dependency", "CoreferenceGroup"}
    /\ issued = TidSpace
    /\ elements = <<>>
    /\ entry_dict = <<>>

=============================================================================
